---------------------------- MODULE Spec2Model ----------------------------
(***************************************************************************)
(* Todo API of go-huma-test: the request handlers of handler/handler.go    *)
(* over the queries of db/queries.sql and the todos table.                 *)
(*                                                                         *)
(* The store is the set of rows of the todos table.  Every handler is one  *)
(* action: the pool has a single connection, so a handler's statements     *)
(* (and its transaction) never interleave with another handler's.  The     *)
(* store may fail any call (busy timeout, I/O): the step that fails is an  *)
(* input of the action.  A handler is a function of the table, the clock   *)
(* and the request: h<Name> gives its result and the table it leaves.      *)
(*                                                                         *)
(* Spec runs the handlers one request at a time.  SpecC runs concurrent    *)
(* requests step by step (begin, statement, commit) over the connection    *)
(* pool of initDB; SpecCFair adds the fairness of the store's answers.     *)
(***************************************************************************)
EXTENDS Integers, Sequences, FiniteSets, TLC

VARIABLES
    todos,      \* the committed rows of table todos
    nextId,     \* the next AUTOINCREMENT id
    now,        \* the store's clock, CURRENT_TIMESTAMP, in whole seconds
    pc,         \* concurrent requests: where each request's handler stands
    op,         \* concurrent requests: the handler each request invokes
    ret,        \* concurrent requests: what each handler returned
    txs,        \* concurrent requests: each handler's transaction
    conns,      \* the requests that hold a connection of the pool
    orig        \* the completed flag of the row the concurrent requests start with

\* The requests in flight, used by SpecC only.
reqs == <<pc, op, ret, txs, conns, orig>>
vars == <<todos, nextId, now, pc, op, ret, txs, conns, orig>>

(***************************************************************************)
(* Bounds of the model.                                                    *)
(***************************************************************************)
MaxId == 2          \* rows ever created
MaxClock == 1       \* seconds the clock advances
MaxProcs == 2       \* concurrent requests

\* sqlDB.SetMaxOpenConns(1): the connections the pool may have open.
MaxOpenConns == 1

Ids == 1..MaxId
\* Titles the binding layer lets through (minLength 1).
Titles == {"a", "b"}
\* *string of the request body: nil when the field is omitted.
NilPtr == [nil |-> TRUE, val |-> ""]
Ptr(s) == [nil |-> FALSE, val |-> s]
Descriptions == {NilPtr, Ptr(""), Ptr("d")}

\* The zero value of db.Todo.
ZeroTodo ==
    [id |-> 0, title |-> "", description |-> [Valid |-> FALSE, String |-> ""],
     completed |-> 0, created_at |-> 0, updated_at |-> 0]

Exists(db, id) == \E r \in db : r.id = id
Row(db, id) == IF Exists(db, id) THEN CHOOSE r \in db : r.id = id ELSE ZeroTodo

(***************************************************************************)
(* handler.go: conversions.                                                *)
(***************************************************************************)
\* Faulty variant: the empty string passed through as a present value.
stringToNullString_Passthrough(s) == [Valid |-> TRUE, String |-> s]

stringToNullString(s) ==
    IF s = "" THEN [Valid |-> FALSE, String |-> ""]
    ELSE [Valid |-> TRUE, String |-> s]

nullStringToString(s) == IF s.Valid THEN s.String ELSE ""

\* time.Time.Format(time.RFC3339) of a whole-second timestamp.
FormatRFC3339(t) == <<"RFC3339", t>>

toTodoResponse(t) ==
    [ID          |-> t.id,
     Title       |-> t.title,
     Description |-> Ptr(nullStringToString(t.description)),
     Completed   |-> t.completed = 1,
     CreatedAt   |-> FormatRFC3339(t.created_at),
     UpdatedAt   |-> FormatRFC3339(t.updated_at)]

(***************************************************************************)
(* Schema: the trigger that refreshes updated_at after every UPDATE.       *)
(***************************************************************************)
\* Faulty variant: the trigger's UPDATE without its WHERE id = NEW.id.
update_todos_updated_at_NoWhere(db, id, ts) ==
    {[r EXCEPT !.updated_at = ts] : r \in db}

update_todos_updated_at(db, id, ts) ==
    {IF r.id = id THEN [r EXCEPT !.updated_at = ts] ELSE r : r \in db}

(***************************************************************************)
(* db/queries.sql.  A :one query yields ErrNoRows when no row comes back.  *)
(* Each returns [err, todo, db]: the error, the row returned, the table    *)
(* after the statement.                                                    *)
(***************************************************************************)
qGetTodo(db, id) ==
    IF Exists(db, id)
    THEN [err |-> "nil", todo |-> Row(db, id), db |-> db]
    ELSE [err |-> "ErrNoRows", todo |-> ZeroTodo, db |-> db]

RECURSIVE Orderings(_)
Orderings(S) ==
    IF S = {} THEN {<<>>}
    ELSE UNION {{<<x>> \o s : s \in Orderings(S \ {x})} : x \in S}

\* ORDER BY created_at DESC: rows of equal created_at come in any order.
OrderByCreatedAtDesc(S) ==
    {s \in Orderings(S) :
        \A i \in 1..(Len(s) - 1) : s[i].created_at >= s[i + 1].created_at}

qListTodos(db) == OrderByCreatedAtDesc(db)

\* Faulty variant: the WHERE clause forgotten.
qListTodosByStatus_NoWhere(db, completed) == OrderByCreatedAtDesc(db)

qListTodosByStatus(db, completed) ==
    OrderByCreatedAtDesc({r \in db : r.completed = completed})

qCreateTodo(db, nid, ts, title, description, completed) ==
    LET t == [id |-> nid, title |-> title, description |-> description,
              completed |-> completed, created_at |-> ts, updated_at |-> ts]
    IN [err |-> "nil", todo |-> t, db |-> db \cup {t}]

\* Faulty variant: description left out of the SET list.
qUpdateTodo_NoDescription(db, ts, id, title, description, completed) ==
    IF Exists(db, id)
    THEN LET t == [Row(db, id) EXCEPT !.title = title,
                                      !.completed = completed,
                                      !.updated_at = ts]
         IN [err |-> "nil", todo |-> t,
             db |-> update_todos_updated_at((db \ {Row(db, id)}) \cup {t}, id, ts)]
    ELSE [err |-> "ErrNoRows", todo |-> ZeroTodo, db |-> db]

qUpdateTodo(db, ts, id, title, description, completed) ==
    IF Exists(db, id)
    THEN LET t == [Row(db, id) EXCEPT !.title = title,
                                      !.description = description,
                                      !.completed = completed,
                                      !.updated_at = ts]
         IN [err |-> "nil", todo |-> t,
             db |-> update_todos_updated_at((db \ {Row(db, id)}) \cup {t}, id, ts)]
    ELSE [err |-> "ErrNoRows", todo |-> ZeroTodo, db |-> db]

\* Faulty variant: written :one, so that no row deleted is ErrNoRows.
qDeleteTodo_One(db, id) ==
    IF Exists(db, id)
    THEN [err |-> "nil", todo |-> ZeroTodo, db |-> {r \in db : r.id # id}]
    ELSE [err |-> "ErrNoRows", todo |-> ZeroTodo, db |-> db]

\* Faulty variant: the WHERE clause forgotten.
qDeleteTodo_NoWhere(db, id) == [err |-> "nil", todo |-> ZeroTodo, db |-> {}]

qDeleteTodo(db, id) ==
    [err |-> "nil", todo |-> ZeroTodo, db |-> {r \in db : r.id # id}]

\* Faulty variant: SET completed = completed + 1 instead of the CASE.
qToggleTodoCompleted_Increment(db, ts, id) ==
    IF Exists(db, id)
    THEN LET t == [Row(db, id) EXCEPT !.completed = @ + 1, !.updated_at = ts]
         IN [err |-> "nil", todo |-> t,
             db |-> update_todos_updated_at((db \ {Row(db, id)}) \cup {t}, id, ts)]
    ELSE [err |-> "ErrNoRows", todo |-> ZeroTodo, db |-> db]

\* Faulty variant: SET completed = 1 instead of the CASE.
qToggleTodoCompleted_SetOne(db, ts, id) ==
    IF Exists(db, id)
    THEN LET t == [Row(db, id) EXCEPT !.completed = 1, !.updated_at = ts]
         IN [err |-> "nil", todo |-> t,
             db |-> update_todos_updated_at((db \ {Row(db, id)}) \cup {t}, id, ts)]
    ELSE [err |-> "ErrNoRows", todo |-> ZeroTodo, db |-> db]

qToggleTodoCompleted(db, ts, id) ==
    IF Exists(db, id)
    THEN LET t == [Row(db, id) EXCEPT
                     !.completed = IF @ = 0 THEN 1 ELSE 0,
                     !.updated_at = ts]
         IN [err |-> "nil", todo |-> t,
             db |-> update_todos_updated_at((db \ {Row(db, id)}) \cup {t}, id, ts)]
    ELSE [err |-> "ErrNoRows", todo |-> ZeroTodo, db |-> db]

\* A call the store fails for a reason other than "no rows".
StoreError(db) == [err |-> "other", todo |-> ZeroTodo, db |-> db]

(***************************************************************************)
(* What a handler hands back to the framework.                             *)
(*   status 200/201: success; 404, 500: huma errors; 0: the handler        *)
(*   panicked and returned nothing.                                        *)
(***************************************************************************)
Success(status, body, message) ==
    [status |-> status, errId |-> 0, todos |-> body, message |-> message]
Error404NotFound(id) ==
    [status |-> 404, errId |-> id, todos |-> <<>>, message |-> ""]
Error500InternalServerError ==
    [status |-> 500, errId |-> 0, todos |-> <<>>, message |-> ""]
Panic ==
    [status |-> 0, errId |-> 0, todos |-> <<>>, message |-> ""]

\* Outcome of a handler: its result, the committed table, and the state its
\* transaction is left in ("none", "open", "commit", "rollback").
Outcome(res, db, tx) == [res |-> res, db |-> db, tx |-> tx]


(***************************************************************************)
(* handler.go: the handlers, as functions of the table, the clock, the     *)
(* request and the step the store fails ("none", "begin", "stmt",          *)
(* "commit").                                                              *)
(***************************************************************************)
ReadFails == {"none", "stmt"}
TxFails == {"none", "begin", "stmt", "commit"}

\* The set of results ListTodos may give (rows of equal created_at).
hListTodos(db, completed, fail) ==
    IF fail = "stmt"
    THEN {Outcome(Error500InternalServerError, db, "none")}
    ELSE LET lists == IF completed THEN qListTodosByStatus(db, 1)
                      ELSE qListTodos(db)
         IN {Outcome(Success(200, [i \in 1..Len(s) |-> toTodoResponse(s[i])], ""),
                     db, "none") : s \in lists}

\* Faulty variant: sql.ErrNoRows not told apart from other errors.
hGetTodo_NoErrNoRows(db, id, fail) ==
    LET q == IF fail = "stmt" THEN StoreError(db) ELSE qGetTodo(db, id)
    IN IF q.err # "nil"
       THEN Outcome(Error500InternalServerError, db, "none")
       ELSE Outcome(Success(200, <<toTodoResponse(q.todo)>>, ""), db, "none")

hGetTodo(db, id, fail) ==
    LET q == IF fail = "stmt" THEN StoreError(db) ELSE qGetTodo(db, id)
    IN IF q.err # "nil"
       THEN IF q.err = "ErrNoRows"
            THEN Outcome(Error404NotFound(id), db, "none")
            ELSE Outcome(Error500InternalServerError, db, "none")
       ELSE Outcome(Success(200, <<toTodoResponse(q.todo)>>, ""), db, "none")

hCreateTodo(db, nid, ts, title, description, fail) ==
    IF description.nil
    THEN Outcome(Panic, db, "none")         \* *input.Body.Description on nil
    ELSE LET q == IF fail = "stmt" THEN StoreError(db)
                  ELSE qCreateTodo(db, nid, ts, title,
                                   stringToNullString(description.val), 0)
         IN IF q.err # "nil"
            THEN Outcome(Error500InternalServerError, db, "none")
            ELSE Outcome(Success(201, <<toTodoResponse(q.todo)>>, ""), q.db, "none")

\* database/sql transactions as the handlers' steps use them: "base" is the
\* committed table, "work" the table the transaction's statements see.
BeginTx(db, fail) ==
    IF fail = "begin"
    THEN [err |-> "other", tx |-> [state |-> "none", base |-> db, work |-> db]]
    ELSE [err |-> "nil", tx |-> [state |-> "open", base |-> db, work |-> db]]

\* Faulty variant: the statement is applied to the committed table at once.
WithTx_Direct(tx, q) == [tx EXCEPT !.base = q.db, !.work = q.db]

\* qtx := h.queries.WithTx(tx): the statement's effect stays in the transaction.
WithTx(tx, q) == [tx EXCEPT !.work = q.db]

\* tx.Commit(): a commit that fails leaves nothing behind and ends the transaction.
Commit(tx, fail) ==
    IF tx.state # "open"
    THEN [err |-> "ErrTxDone", tx |-> tx]
    ELSE IF fail = "commit"
    THEN [err |-> "other", tx |-> [tx EXCEPT !.state = "rollback", !.work = tx.base]]
    ELSE [err |-> "nil", tx |-> [tx EXCEPT !.state = "commit", !.base = tx.work]]

\* tx.Rollback(): sql.ErrTxDone, and no effect, on a finished transaction.
Rollback(tx) ==
    IF tx.state = "open"
    THEN [tx EXCEPT !.state = "rollback", !.work = tx.base]
    ELSE tx

\* Faulty variant: the handler returns without the deferred tx.Rollback().
deferRollback_Missing(res, tx) == Outcome(res, tx.base, tx.state)

\* defer tx.Rollback(): what the handler leaves behind when it returns res.
deferRollback(res, tx) ==
    LET t == Rollback(tx) IN Outcome(res, t.base, t.state)

hUpdateTodo(db, ts, id, title, description, completed, fail) ==
    IF fail = "begin"
    THEN Outcome(Error500InternalServerError, db, "none")
    ELSE IF description.nil
    THEN Outcome(Panic, db, "rollback")     \* deferred tx.Rollback() runs
    ELSE LET q == IF fail = "stmt" THEN StoreError(db)
                  ELSE qUpdateTodo(db, ts, id, title,
                                   stringToNullString(description.val),
                                   IF completed THEN 1 ELSE 0)
         IN IF q.err # "nil"
            THEN Outcome(Error500InternalServerError, db, "rollback")
            ELSE IF fail = "commit"
            THEN Outcome(Error500InternalServerError, db, "rollback")
            ELSE Outcome(Success(200, <<toTodoResponse(q.todo)>>, ""), q.db, "commit")

hDeleteTodo(db, id, fail) ==
    IF fail = "begin"
    THEN Outcome(Error500InternalServerError, db, "none")
    ELSE LET q == IF fail = "stmt" THEN StoreError(db) ELSE qDeleteTodo(db, id)
         IN IF q.err # "nil"
            THEN Outcome(Error500InternalServerError, db, "rollback")
            ELSE IF fail = "commit"
            THEN Outcome(Error500InternalServerError, db, "rollback")
            ELSE Outcome(Success(200, <<>>, "Todo deleted successfully"), q.db, "commit")

hToggleTodo(db, ts, id, fail) ==
    IF fail = "begin"
    THEN Outcome(Error500InternalServerError, db, "none")
    ELSE LET q == IF fail = "stmt" THEN StoreError(db)
                  ELSE qToggleTodoCompleted(db, ts, id)
         IN IF q.err # "nil"
            THEN Outcome(Error500InternalServerError, db, "rollback")
            ELSE IF fail = "commit"
            THEN Outcome(Error500InternalServerError, db, "rollback")
            ELSE Outcome(Success(200, <<toTodoResponse(q.todo)>>, ""), q.db, "commit")

(***************************************************************************)
(* The state machine.  A handler keeps nothing between requests: the       *)
(* state is the table, its id counter and the clock.                       *)
(***************************************************************************)
\* The requests of the server, and the handlers they may invoke.
Procs == 1..MaxProcs
TxKinds == {"UpdateTodo", "DeleteTodo", "ToggleTodo"}
StmtKinds == {"ListTodos", "GetTodo", "CreateTodo"}
\* No transaction begun, nothing returned yet.
NoTx == [state |-> "none", base |-> {}, work |-> {}]
NoRet == [status |-> 0, failed |-> "none"]

\* No request in flight.
NoRequests ==
    /\ pc = <<>>
    /\ op = <<>>
    /\ ret = <<>>
    /\ txs = <<>>
    /\ conns = {}
    /\ orig = 0

Init ==
    /\ todos = {}
    /\ nextId = 1
    /\ now = 0
    /\ NoRequests

\* CURRENT_TIMESTAMP moves on by a second.
Tick ==
    /\ now < MaxClock
    /\ now' = now + 1
    /\ UNCHANGED <<todos, nextId, reqs>>

ListTodos ==
    \E completed \in BOOLEAN, fail \in ReadFails :
      \E out \in hListTodos(todos, completed, fail) :
        /\ todos' = out.db
        /\ UNCHANGED <<nextId, now, reqs>>

GetTodo ==
    \E id \in Ids, fail \in ReadFails :
      /\ todos' = hGetTodo(todos, id, fail).db
      /\ UNCHANGED <<nextId, now, reqs>>

\* AUTOINCREMENT: an id is used up by the insert that succeeds.
CreateTodo ==
    \E title \in Titles, description \in Descriptions, fail \in ReadFails :
      LET out == hCreateTodo(todos, nextId, now, title, description, fail)
      IN /\ nextId <= MaxId
         /\ todos' = out.db
         /\ nextId' = IF out.res.status = 201 THEN nextId + 1 ELSE nextId
         /\ UNCHANGED <<now, reqs>>

UpdateTodo ==
    \E id \in Ids, title \in Titles, description \in Descriptions,
       completed \in BOOLEAN, fail \in TxFails :
      /\ todos' = hUpdateTodo(todos, now, id, title, description, completed, fail).db
      /\ UNCHANGED <<nextId, now, reqs>>

DeleteTodo ==
    \E id \in Ids, fail \in TxFails :
      /\ todos' = hDeleteTodo(todos, id, fail).db
      /\ UNCHANGED <<nextId, now, reqs>>

ToggleTodo ==
    \E id \in Ids, fail \in TxFails :
      /\ todos' = hToggleTodo(todos, now, id, fail).db
      /\ UNCHANGED <<nextId, now, reqs>>

Next ==
    \/ Tick
    \/ ListTodos
    \/ GetTodo
    \/ CreateTodo
    \/ UpdateTodo
    \/ DeleteTodo
    \/ ToggleTodo

Spec == Init /\ [][Next]_vars

TypeOK ==
    /\ nextId \in 1..(MaxId + 1)
    /\ now \in 0..MaxClock
    /\ \A r \in todos : r.id \in 1..(nextId - 1) /\ r.updated_at <= now

(***************************************************************************)
(* Concurrent requests.  net/http runs every request in its own goroutine; *)
(* the handlers share the pool of initDB, which holds a single connection. *)
(* A handler's steps are its calls of the store: BeginTx, the statement,   *)
(* Commit.  Create, Get and List make one call, on a connection the pool   *)
(* lends for that call.  Every request asks for the row the table starts   *)
(* with.                                                                   *)
(***************************************************************************)
\* The id AUTOINCREMENT gives the first row.
FirstId == 1

\* Older variant of initDB: no SetMaxOpenConns, the pool opens what is asked.
PoolHasRoom_Unlimited == TRUE

\* database/sql lends a connection when fewer than MaxOpenConns are in use.
PoolHasRoom == Cardinality(conns) < MaxOpenConns

\* Faulty variant: the statement goes to h.queries and asks the pool for a
\* connection of its own.
qtxConn_Pool(p) == PoolHasRoom

\* qtx := h.queries.WithTx(tx): the statement runs on the transaction's connection.
qtxConn(p) == p \in conns

\* A row as CreateTodo left it, toggled or not; one request per process.
InitC ==
    /\ \E c \in {0, 1} :
         LET created == qCreateTodo({}, FirstId, 0, "a", stringToNullString("d"), 0).db
         IN /\ orig = c
            /\ todos = IF c = 1 THEN qToggleTodoCompleted(created, 0, FirstId).db
                       ELSE created
    /\ nextId = FirstId + 1
    /\ now = 0
    /\ pc = [p \in Procs |-> "called"]
    /\ op \in [Procs -> TxKinds \cup StmtKinds]
    /\ Cardinality({p \in Procs : op[p] = "CreateTodo"}) <= MaxId - FirstId
    /\ ret = [p \in Procs |-> NoRet]
    /\ txs = [p \in Procs |-> NoTx]
    /\ conns = {}

\* The handler of p returns out: its connection goes back to the pool.
Return(p, out, failed) ==
    /\ todos' = out.db
    /\ pc' = [pc EXCEPT ![p] = "done"]
    /\ ret' = [ret EXCEPT ![p] = [status |-> out.res.status, failed |-> failed]]
    /\ txs' = [txs EXCEPT ![p] = [state |-> out.tx, base |-> {}, work |-> {}]]
    /\ conns' = conns \ {p}

\* The first call of the store fails before it has a connection (the request's
\* context ends while it waits, the connection cannot be opened).
CallFails(p) ==
    /\ pc[p] = "called"
    /\ IF op[p] \in TxKinds
       THEN Return(p, Outcome(Error500InternalServerError, todos,
                              BeginTx(todos, "begin").tx.state), "begin")
       ELSE Return(p, Outcome(Error500InternalServerError, todos, "none"), "stmt")
    /\ UNCHANGED <<nextId, now, op, orig>>

\* h.db.BeginTx: the transaction takes a connection and keeps it.
BeginTxOk(p) ==
    /\ pc[p] = "called"
    /\ op[p] \in TxKinds
    /\ PoolHasRoom
    /\ conns' = conns \cup {p}
    /\ txs' = [txs EXCEPT ![p] = BeginTx(todos, "none").tx]
    /\ pc' = [pc EXCEPT ![p] = "begun"]
    /\ UNCHANGED <<todos, nextId, now, op, ret, orig>>

\* The statement of UpdateTodo, DeleteTodo, ToggleTodo, inside the transaction.
Stmt(p) ==
    /\ pc[p] = "begun"
    /\ qtxConn(p)
    /\ \E fail \in {"none", "stmt"}, title \in Titles,
          description \in Descriptions, completed \in BOOLEAN :
         LET t == txs[p]
             q == IF fail = "stmt" THEN StoreError(t.work)
                  ELSE CASE op[p] = "UpdateTodo" ->
                              qUpdateTodo(t.work, now, FirstId, title,
                                          stringToNullString(description.val),
                                          IF completed THEN 1 ELSE 0)
                         [] op[p] = "DeleteTodo" -> qDeleteTodo(t.work, FirstId)
                         [] op[p] = "ToggleTodo" ->
                              qToggleTodoCompleted(t.work, now, FirstId)
         IN IF op[p] = "UpdateTodo" /\ description.nil
            THEN Return(p, deferRollback(Panic, t), "none")
            ELSE IF q.err # "nil"
            THEN Return(p, deferRollback(Error500InternalServerError, WithTx(t, q)),
                        fail)
            ELSE /\ txs' = [txs EXCEPT ![p] = WithTx(t, q)]
                 /\ pc' = [pc EXCEPT ![p] = "executed"]
                 /\ UNCHANGED <<todos, ret, conns>>
    /\ UNCHANGED <<nextId, now, op, orig>>

\* tx.Commit(), then the return through the deferred tx.Rollback().
CommitTx(p) ==
    /\ pc[p] = "executed"
    /\ \E fail \in {"none", "commit"} :
         LET c == Commit(txs[p], fail)
         IN IF c.err # "nil"
            THEN Return(p, deferRollback(Error500InternalServerError, c.tx), fail)
            ELSE Return(p, deferRollback(Success(200, <<>>, ""), c.tx), fail)
    /\ UNCHANGED <<nextId, now, op, orig>>

\* ListTodos, GetTodo, CreateTodo: one statement on a connection of the pool.
Single(p) ==
    /\ pc[p] = "called"
    /\ op[p] \in StmtKinds
    /\ PoolHasRoom
    /\ \E fail \in ReadFails, title \in Titles, description \in Descriptions,
          completed \in BOOLEAN :
         \E out \in CASE op[p] = "ListTodos" -> hListTodos(todos, completed, fail)
                      [] op[p] = "GetTodo" -> {hGetTodo(todos, FirstId, fail)}
                      [] op[p] = "CreateTodo" ->
                           {hCreateTodo(todos, nextId, now, title, description, fail)} :
           /\ Return(p, out, IF out.res.status = 500 THEN fail ELSE "none")
           /\ nextId' = IF out.res.status = 201 THEN nextId + 1 ELSE nextId
    /\ UNCHANGED <<now, op, orig>>

NextC ==
    \E p \in Procs :
      \/ CallFails(p)
      \/ BeginTxOk(p)
      \/ Stmt(p)
      \/ CommitTx(p)
      \/ Single(p)

SpecC == InitC /\ [][NextC]_vars

\* The store answers or times out every call made on a connection, and the
\* pool lends a connection that stays free.
SpecCFair ==
    /\ SpecC
    /\ \A p \in Procs :
         /\ WF_vars(BeginTxOk(p))
         /\ WF_vars(Stmt(p))
         /\ WF_vars(CommitTx(p))
         /\ WF_vars(Single(p))

TypeOKC ==
    /\ pc \in [Procs -> {"called", "begun", "executed", "done"}]
    /\ op \in [Procs -> TxKinds \cup StmtKinds]
    /\ conns \subseteq Procs
    /\ \A p \in Procs : ret[p].status \in {0, 200, 201, 404, 500}
    /\ nextId \in 1..(MaxId + 1)

(***************************************************************************)
(* Helpers of the properties.                                              *)
(***************************************************************************)
\* The requests whose transaction is begun and not finished.
InFlight == {p \in Procs : txs[p].state = "open"}
\* The entity a successful single-entity response carries.
Body(out) == out.res.todos[1]
\* The instant a formatted timestamp stands for.
ParseRFC3339(s) == s[2]
\* Ids whose row is gone (deleted) or not yet there.
Missing == {id \in Ids : ~Exists(todos, id)}
Present == {id \in Ids : Exists(todos, id)}
\* The clock at a later call: it may have moved on, one second past the bound too.
Later == now..(MaxClock + 1)
\* Request bodies that carry a description.
GivenDescriptions == {d \in Descriptions : ~d.nil}

(***************************************************************************)
(* C1: for every id without a row, UpdateTodo and ToggleTodo each report   *)
(* not-found (404, not a server error) and leave the store unchanged.      *)
(* Stated for requests the store does not fail.                            *)
(***************************************************************************)
C1_MissingIdIsNotFound ==
    \A id \in Missing :
      /\ \A title \in Titles, description \in GivenDescriptions,
            completed \in BOOLEAN :
           LET out == hUpdateTodo(todos, now, id, title, description,
                                  completed, "none")
           IN out.res.status = 404 /\ out.db = todos
      /\ LET out == hToggleTodo(todos, now, id, "none")
         IN out.res.status = 404 /\ out.db = todos

(***************************************************************************)
(* C2: GetTodo(id) returns not-found carrying id exactly when no row has   *)
(* that id, a server error when the store fails the query, and otherwise   *)
(* the response of the stored row; the store is unchanged in all cases.    *)
(***************************************************************************)
C2_GetTodo ==
    \A id \in Ids, fail \in ReadFails :
      LET out == hGetTodo(todos, id, fail)
          rows == {r \in todos : r.id = id}
      IN /\ out.db = todos
         /\ fail = "stmt" => out.res.status = 500
         /\ (fail = "none" /\ rows = {}) =>
               out.res.status = 404 /\ out.res.errId = id
         /\ out.res.status = 404 => rows = {}
         /\ (fail = "none" /\ rows # {}) =>
               /\ out.res.status = 200
               /\ \E r \in rows :
                    /\ Body(out).ID = id
                    /\ Body(out).Title = r.title
                    /\ Body(out).Completed = (r.completed = 1)
                    /\ ParseRFC3339(Body(out).CreatedAt) = r.created_at
                    /\ ParseRFC3339(Body(out).UpdatedAt) = r.updated_at
                    /\ Body(out).Description.val =
                         (IF r.description.Valid THEN r.description.String ELSE "")

\* A row is there to get, and a deleted id is there to miss.
C2_Witness ==
    \E id \in Present, gone \in Missing :
      /\ gone < nextId
      /\ hGetTodo(todos, id, "none").res.status = 200
      /\ hGetTodo(todos, gone, "none").res.status = 404

(***************************************************************************)
(* C3: for every valid (title, description), an absent description         *)
(* included, CreateTodo succeeds when the store takes the insert, and      *)
(* GetTodo on the returned id gives the same title and description,        *)
(* completed = false and created_at = updated_at.                          *)
(***************************************************************************)
C3_CreateThenGet ==
    \A title \in Titles, description \in Descriptions :
      nextId <= MaxId =>
        LET out == hCreateTodo(todos, nextId, now, title, description, "none")
        IN /\ out.res.status = 201
           /\ LET got == hGetTodo(out.db, Body(out).ID, "none")
              IN /\ got.res.status = 200
                 /\ Body(got).Title = title
                 /\ Body(got).Description = description
                 /\ Body(got).Completed = FALSE
                 /\ Body(got).CreatedAt = Body(got).UpdatedAt

(***************************************************************************)
(* C4: CreateTodo and UpdateTodo with a valid title and an absent          *)
(* description succeed, store the description as absent and return a       *)
(* response whose description is absent (and, for create, completed =      *)
(* false); an omitted description never makes the handler abort.           *)
(***************************************************************************)
C4_AbsentDescriptionAccepted ==
    \A title \in Titles :
      /\ nextId <= MaxId =>
           LET out == hCreateTodo(todos, nextId, now, title, NilPtr, "none")
           IN /\ out.res.status = 201
              /\ ~Row(out.db, nextId).description.Valid
              /\ Body(out).Description.nil
              /\ Body(out).Completed = FALSE
      /\ \A id \in Present, completed \in BOOLEAN :
           LET out == hUpdateTodo(todos, now, id, title, NilPtr, completed, "none")
           IN /\ out.res.status = 200
              /\ ~Row(out.db, id).description.Valid
              /\ Body(out).Description.nil

(***************************************************************************)
(* C5: every entity a handler returns has its description present exactly  *)
(* when the stored description is present, and completed = true exactly    *)
(* when the stored flag is 1.  Stated of GetTodo and ListTodos, which      *)
(* return every stored row.                                                *)
(***************************************************************************)
C5_ResponseShape ==
    /\ \A id \in Present :
         LET out == hGetTodo(todos, id, "none")
             r == Row(todos, id)
         IN /\ ~Body(out).Description.nil <=> r.description.Valid
            /\ Body(out).Completed <=> r.completed = 1
    /\ \A out \in hListTodos(todos, FALSE, "none") :
         \A i \in 1..Len(out.res.todos) :
           LET e == out.res.todos[i]
               r == Row(todos, e.ID)
           IN /\ ~e.Description.nil <=> r.description.Valid
              /\ e.Completed <=> r.completed = 1

(***************************************************************************)
(* C6 as written: two successive successful ToggleTodo calls on an         *)
(* existing id return the negated and then the original completed value,   *)
(* and updated_at advances (strictly) on both calls.                       *)
(***************************************************************************)
C6_ToggleTwiceAdvances ==
    \A id \in Present, t2 \in Later :
      LET r0 == Row(todos, id)
          o1 == hToggleTodo(todos, now, id, "none")
          o2 == hToggleTodo(o1.db, t2, id, "none")
      IN /\ o1.res.status = 200 /\ o2.res.status = 200
         /\ Body(o1).Completed = ~(r0.completed = 1)
         /\ Body(o2).Completed = (r0.completed = 1)
         /\ Row(o2.db, id).completed = r0.completed
         /\ ParseRFC3339(Body(o1).UpdatedAt) > r0.updated_at
         /\ ParseRFC3339(Body(o2).UpdatedAt) > ParseRFC3339(Body(o1).UpdatedAt)

(***************************************************************************)
(* C6 amended: two successive successful ToggleTodo calls on an existing   *)
(* id return the negated and then the original completed value; each call  *)
(* sets updated_at to the store's clock (whole seconds) at the call, so    *)
(* updated_at never goes back and advances exactly when the clock has      *)
(* moved on since the row was last written.                                *)
(***************************************************************************)
C6_ToggleTwice ==
    \A id \in Present, t2 \in Later :
      LET r0 == Row(todos, id)
          o1 == hToggleTodo(todos, now, id, "none")
          o2 == hToggleTodo(o1.db, t2, id, "none")
          u1 == ParseRFC3339(Body(o1).UpdatedAt)
          u2 == ParseRFC3339(Body(o2).UpdatedAt)
      IN /\ o1.res.status = 200 /\ o2.res.status = 200
         /\ Body(o1).Completed = ~(r0.completed = 1)
         /\ Body(o2).Completed = (r0.completed = 1)
         /\ Row(o1.db, id).completed = 1 - r0.completed
         /\ Row(o2.db, id).completed = r0.completed
         /\ u1 = now /\ Row(o1.db, id).updated_at = now
         /\ u2 = t2 /\ Row(o2.db, id).updated_at = t2
         /\ u1 >= r0.updated_at /\ u2 >= u1
         /\ (u1 > r0.updated_at) <=> (now > r0.updated_at)
         /\ (u2 > u1) <=> (t2 > now)

\* A row written in an earlier second, toggled now and again a second later:
\* both calls succeed, the flag comes back and updated_at advances twice.
C6_Witness ==
    \E id \in Present :
      LET r0 == Row(todos, id)
          o1 == hToggleTodo(todos, now, id, "none")
          o2 == hToggleTodo(o1.db, now + 1, id, "none")
      IN /\ r0.updated_at < now
         /\ o1.res.status = 200 /\ o2.res.status = 200
         /\ Body(o1).Completed # Body(o2).Completed
         /\ Row(o2.db, id).completed = r0.completed
         /\ Row(o2.db, id).updated_at > Row(o1.db, id).updated_at

(***************************************************************************)
(* C7 as written: a successful UpdateTodo(id, title, description,          *)
(* completed) on an existing id followed by GetTodo(id) returns exactly    *)
(* the supplied title, description and completed, and an updated_at        *)
(* strictly greater than the row had before.                               *)
(***************************************************************************)
C7_UpdateThenGetAdvances ==
    \A id \in Present, title \in Titles, description \in Descriptions,
       completed \in BOOLEAN :
      LET r0 == Row(todos, id)
          out == hUpdateTodo(todos, now, id, title, description, completed, "none")
          got == hGetTodo(out.db, id, "none")
      IN out.res.status = 200 =>
           /\ got.res.status = 200
           /\ Body(got).Title = title
           /\ Body(got).Description = description
           /\ Body(got).Completed = completed
           /\ ParseRFC3339(Body(got).UpdatedAt) > r0.updated_at

(***************************************************************************)
(* C7 amended: a successful UpdateTodo on an existing id followed by       *)
(* GetTodo(id) returns exactly the supplied title, description and         *)
(* completed, and an updated_at equal to the store's clock (whole seconds) *)
(* at the update: never less than the value before, and strictly greater   *)
(* exactly when the clock has moved on since the row was last written.     *)
(***************************************************************************)
C7_UpdateThenGet ==
    \A id \in Present, title \in Titles, description \in Descriptions,
       completed \in BOOLEAN :
      LET r0 == Row(todos, id)
          out == hUpdateTodo(todos, now, id, title, description, completed, "none")
          got == hGetTodo(out.db, id, "none")
          u == ParseRFC3339(Body(got).UpdatedAt)
      IN /\ ~description.nil => out.res.status = 200
         /\ out.res.status = 200 =>
              /\ got.res.status = 200
              /\ Body(got).ID = id
              /\ Body(got).Title = title
              /\ Body(got).Description = description
              /\ Body(got).Completed = completed
              /\ ParseRFC3339(Body(got).CreatedAt) = r0.created_at
              /\ u = now
              /\ u >= r0.updated_at
              /\ (u > r0.updated_at) <=> (now > r0.updated_at)

\* A completed row "b" with a description, written in an earlier second, that
\* an update changes in every field.
C7_Witness ==
    \E id \in Present :
      LET r0 == Row(todos, id)
          out == hUpdateTodo(todos, now, id, "a", Ptr(""), FALSE, "none")
      IN /\ r0.completed = 1 /\ r0.title = "b" /\ r0.description.Valid
         /\ r0.updated_at < now
         /\ out.res.status = 200
         /\ Row(out.db, id).title = "a"
         /\ ~Row(out.db, id).description.Valid
         /\ Row(out.db, id).updated_at = now

(***************************************************************************)
(* C8: in every reachable store, ListTodos without the filter (filter =    *)
(* false) returns every stored entity exactly once, ordered by created_at  *)
(* descending; with filter = true it returns, in the same order, exactly   *)
(* the entities whose completed flag is set; on an empty store both return *)
(* an empty sequence with success.                                         *)
(***************************************************************************)
C8_ListTodos ==
    \A completed \in BOOLEAN :
      LET outs == hListTodos(todos, completed, "none")
          want == IF completed THEN {r \in todos : r.completed = 1} ELSE todos
      IN /\ outs # {}
         /\ \A out \in outs :
              LET l == out.res.todos
              IN /\ out.res.status = 200
                 /\ out.db = todos
                 /\ Len(l) = Cardinality(want)
                 /\ {l[i].ID : i \in 1..Len(l)} = {r.id : r \in want}
                 /\ \A i \in 1..Len(l) :
                      /\ l[i].Title = Row(todos, l[i].ID).title
                      /\ ParseRFC3339(l[i].CreatedAt) = Row(todos, l[i].ID).created_at
                 /\ \A i \in 1..(Len(l) - 1) :
                      ParseRFC3339(l[i].CreatedAt) >= ParseRFC3339(l[i + 1].CreatedAt)
                 /\ todos = {} => l = <<>>

\* Two rows created in different seconds, the older one completed: the full
\* list has the newer row first and the filtered list only the older one.
C8_Witness ==
    \E old \in Present, new \in Present :
      /\ Row(todos, old).created_at < Row(todos, new).created_at
      /\ Row(todos, old).completed = 1 /\ Row(todos, new).completed = 0
      /\ \E out \in hListTodos(todos, FALSE, "none") :
           out.res.todos[1].ID = new /\ out.res.todos[2].ID = old
      /\ \E out \in hListTodos(todos, TRUE, "none") :
           Len(out.res.todos) = 1 /\ out.res.todos[1].ID = old

(***************************************************************************)
(* C9: DeleteTodo on an id without a row returns success with the fixed    *)
(* confirmation message (a server error when the store fails a step),      *)
(* never not-found, and leaves the store unchanged.                        *)
(***************************************************************************)
C9_DeleteMissing ==
    \A id \in Missing, fail \in TxFails :
      LET out == hDeleteTodo(todos, id, fail)
      IN /\ out.db = todos
         /\ out.res.status # 404
         /\ fail = "none" =>
              /\ out.res.status = 200
              /\ out.res.message = "Todo deleted successfully"
         /\ fail # "none" => out.res.status = 500

\* An id already deleted, beside a row that stays: deleting it again succeeds.
C9_Witness ==
    \E id \in Missing :
      /\ id < nextId
      /\ todos # {}
      /\ hDeleteTodo(todos, id, "none").res.status = 200
      /\ hDeleteTodo(todos, id, "none").db = todos

(***************************************************************************)
(* C10: after a successful DeleteTodo(id) the row is gone: GetTodo(id)     *)
(* returns not-found, no ListTodos result contains id, and every other row *)
(* is unchanged.                                                           *)
(***************************************************************************)
C10_DeleteThenGone ==
    \A id \in Ids :
      LET out == hDeleteTodo(todos, id, "none")
      IN out.res.status = 200 =>
           /\ ~Exists(out.db, id)
           /\ hGetTodo(out.db, id, "none").res.status = 404
           /\ \A completed \in BOOLEAN :
                \A l \in hListTodos(out.db, completed, "none") :
                  \A i \in 1..Len(l.res.todos) : l.res.todos[i].ID # id
           /\ \A other \in Ids \ {id} :
                /\ Exists(out.db, other) <=> Exists(todos, other)
                /\ Row(out.db, other) = Row(todos, other)
           /\ out.db \subseteq todos

\* Two rows, one of them completed: deleting it leaves the other alone.
C10_Witness ==
    \E id \in Present, other \in Present :
      LET out == hDeleteTodo(todos, id, "none")
      IN /\ other # id
         /\ Row(todos, id).completed = 1
         /\ out.res.status = 200
         /\ out.db = {Row(todos, other)}
         /\ hGetTodo(out.db, id, "none").res.status = 404

(***************************************************************************)
(* C11: for UpdateTodo, DeleteTodo and ToggleTodo, the step at which the   *)
(* store fails (begin, the statement, commit) ends the handler with a      *)
(* server error and leaves the committed table as it is, which is as it    *)
(* was when the transaction began; the committed table changes only at the *)
(* step by which a handler returns success.                                *)
(***************************************************************************)
C11_FailureLeavesStore ==
    /\ [](\A p \in InFlight : txs[p].base = todos)
    /\ [][\A p \in Procs :
            /\ (pc[p] # "done" /\ pc'[p] = "done" /\ op[p] \in TxKinds
                  /\ ret'[p].status # 200) => todos' = todos
            /\ (pc[p] # "done" /\ ret'[p].failed # "none") =>
                 /\ pc'[p] = "done"
                 /\ ret'[p].status = 500
                 /\ todos' = todos]_vars
    /\ [][todos' # todos =>
            \E p \in Procs :
              /\ pc[p] # "done" /\ pc'[p] = "done"
              /\ ret'[p].status \in {200, 201}]_vars

\* Every request has returned: an UpdateTodo failed at its statement, a
\* ToggleTodo at its commit, and the row is as it was created.
C11_Witness ==
    /\ \E p \in Procs : ret[p] = [status |-> 500, failed |-> "stmt"]
                        /\ op[p] = "UpdateTodo"
    /\ \E p \in Procs : ret[p] = [status |-> 500, failed |-> "commit"]
                        /\ op[p] = "ToggleTodo"
    /\ \A p \in Procs : pc[p] = "done"
    /\ Row(todos, FirstId).completed = orig
    /\ Row(todos, FirstId).title = "a"

(***************************************************************************)
(* C12: a transaction a handler began is finished when the handler has     *)
(* returned: committed exactly when the handler returned success, rolled   *)
(* back on every other exit (the nil-description stop of UpdateTodo        *)
(* included), none when BeginTx failed; and at a successful return the     *)
(* committed table is what the transaction wrote: the deferred rollback    *)
(* after the commit undoes nothing.                                        *)
(***************************************************************************)
C12_TxFinished ==
    /\ [](\A p \in Procs :
            pc[p] = "done" /\ op[p] \in TxKinds =>
              txs[p].state = IF ret[p].failed = "begin" THEN "none"
                             ELSE IF ret[p].status = 200 THEN "commit"
                             ELSE "rollback")
    /\ [][\A p \in Procs :
            pc[p] = "executed" /\ pc'[p] = "done" /\ ret'[p].status = 200 =>
              /\ todos' = txs[p].work
              /\ Rollback(Commit(txs[p], "none").tx).base = txs[p].work]_vars

\* A toggle has committed and left the row toggled; another request's
\* transaction was rolled back at its failing statement.
C12_Witness ==
    \E p \in Procs, q \in Procs :
      /\ op[p] = "ToggleTodo" /\ pc[p] = "done"
      /\ ret[p].status = 200 /\ txs[p].state = "commit"
      /\ op[q] = "UpdateTodo" /\ pc[q] = "done"
      /\ ret[q] = [status |-> 500, failed |-> "stmt"] /\ txs[q].state = "rollback"
      /\ Row(todos, FirstId).completed # orig

(***************************************************************************)
(* C14: in every reachable table no two rows share an id, every row has    *)
(* updated_at >= created_at, a completed flag of 0 or 1, and a non-empty   *)
(* title (the binding layer rejects an empty one before the handler).      *)
(***************************************************************************)
C14_RowInvariants ==
    /\ \A r \in todos, q \in todos : r.id = q.id => r = q
    /\ \A r \in todos :
         /\ r.updated_at >= r.created_at
         /\ r.completed \in {0, 1}
         /\ r.title # ""

\* Two rows: one toggled to completed in a later second than its creation,
\* the other as created.
C14_Witness ==
    \E r \in todos, q \in todos :
      /\ r.id # q.id
      /\ r.completed = 1 /\ r.updated_at > r.created_at
      /\ q.completed = 0 /\ q.updated_at = q.created_at

(***************************************************************************)
(* C15: UpdateTodo and ToggleTodo on id never change that row's id or      *)
(* created_at, ToggleTodo also leaves its title and description, and       *)
(* UpdateTodo, ToggleTodo and DeleteTodo on id change no field of a row    *)
(* with another id (nor add or remove such a row).                         *)
(***************************************************************************)
\* The rows of db other than the row of id.
Others(db, id) == {r \in db : r.id # id}

\* The row of id keeps its id and created_at from table db to table after,
\* and the other rows are the same.
SameIdentity(db, after, id) ==
    \/ after = db
    \/ /\ Others(after, id) = Others(db, id)
       /\ Exists(after, id) <=> Exists(db, id)
       /\ Row(after, id).id = Row(db, id).id
       /\ Row(after, id).created_at = Row(db, id).created_at

FrameKept ==
    \A id \in Ids, fail \in TxFails :
      /\ \A title \in Titles, description \in Descriptions, completed \in BOOLEAN :
           \A after \in {hUpdateTodo(todos, now, id, title, description,
                                     completed, fail).db} :
             SameIdentity(todos, after, id)
      /\ \A after \in {hToggleTodo(todos, now, id, fail).db} :
           /\ SameIdentity(todos, after, id)
           /\ Row(after, id).title = Row(todos, id).title
           /\ Row(after, id).description = Row(todos, id).description
      /\ Others(hDeleteTodo(todos, id, fail).db, id) = Others(todos, id)

\* C15: in every reachable table the frame of UpdateTodo, ToggleTodo and
\* DeleteTodo is kept, for every id, request and failing step.
C15_Frame == []FrameKept

\* Two rows written in an earlier second: an update and a toggle of one of
\* them change it, and its updated_at, and leave the other row alone.
C15_Witness ==
    \E id \in Present, other \in Present :
      LET u == hUpdateTodo(todos, now, id, "b", Ptr("d"), TRUE, "none")
          t == hToggleTodo(todos, now, id, "none")
      IN /\ other # id
         /\ Row(todos, id).updated_at < now
         /\ Row(todos, other).updated_at < now
         /\ u.res.status = 200 /\ t.res.status = 200
         /\ Row(u.db, id).updated_at = now /\ Row(t.db, id).updated_at = now
         /\ Row(t.db, id).completed # Row(todos, id).completed
         /\ Row(u.db, other) = Row(todos, other)
         /\ Row(t.db, other) = Row(todos, other)

(***************************************************************************)
(* C16: a description given as the empty string to CreateTodo or           *)
(* UpdateTodo is stored as absent (NULL), and in every reachable table no  *)
(* row has a description that is present and empty.                        *)
(***************************************************************************)
C16_EmptyDescriptionAbsent ==
    /\ \A r \in todos : ~(r.description.Valid /\ r.description.String = "")
    /\ \A title \in Titles :
         LET out == hCreateTodo(todos, nextId, now, title, Ptr(""), "none")
         IN /\ out.res.status = 201
            /\ ~Row(out.db, nextId).description.Valid
    /\ \A id \in Present, title \in Titles, completed \in BOOLEAN :
         LET out == hUpdateTodo(todos, now, id, title, Ptr(""), completed, "none")
         IN /\ out.res.status = 200
            /\ ~Row(out.db, id).description.Valid

\* A row created with the empty description, stored without one, beside a
\* row with a description that an update with "" would clear.
C16_Witness ==
    \E id \in Present, other \in Present :
      /\ ~Row(todos, id).description.Valid
      /\ Row(todos, other).description.Valid
      /\ ~Row(hUpdateTodo(todos, now, other, "a", Ptr(""), FALSE, "none").db,
              other).description.Valid

(***************************************************************************)
(* C13: with concurrent ToggleTodo requests on the same existing id and    *)
(* nothing else, the stored completed flag is the original one flipped     *)
(* once per request that has returned success (so also once all have: no   *)
(* toggle is lost), and never are two write transactions in flight at the  *)
(* same time.                                                              *)
(***************************************************************************)
\* The requests that have returned success.
Succeeded == {p \in Procs : pc[p] = "done" /\ ret[p].status = 200}
\* c flipped n times.
Flipped(c, n) == (c + n) % 2

C13_NoLostToggle ==
    /\ Cardinality(InFlight) <= 1
    /\ (\A p \in Procs : op[p] = "ToggleTodo") =>
         /\ Exists(todos, FirstId)
         /\ Row(todos, FirstId).completed = Flipped(orig, Cardinality(Succeeded))

\* Every request was a ToggleTodo and has returned success, the first of them
\* after the others had been called.
C13_Witness ==
    /\ \A p \in Procs : op[p] = "ToggleTodo"
    /\ Succeeded = Procs
    /\ Row(todos, FirstId).completed = Flipped(orig, MaxProcs)
    /\ conns = {}

(***************************************************************************)
(* C17: under concurrent requests over the single connection, every        *)
(* handler invocation eventually ends: it returns success or an error (or  *)
(* unwinds at the nil description of C4, its transaction rolled back).  A  *)
(* handler that holds a transaction holds the connection its next step     *)
(* needs and can always take that step; a call the store fails is reported *)
(* as a server error; a handler only moves forward through its steps, so   *)
(* each step is attempted at most once.                                    *)
(***************************************************************************)
\* How far a handler has come.
Rank(s) ==
    CASE s = "called" -> 0
      [] s = "begun" -> 1
      [] s = "executed" -> 2
      [] s = "done" -> 3

C17_EveryRequestReturns ==
    /\ \A p \in Procs : <>(pc[p] = "done")
    /\ [](\A p \in Procs :
            /\ p \in conns <=> p \in InFlight
            /\ p \in InFlight <=> pc[p] \in {"begun", "executed"}
            /\ p \in InFlight => ENABLED (Stmt(p) \/ CommitTx(p))
            /\ pc[p] = "done" /\ ret[p].failed # "none" => ret[p].status = 500
            /\ pc[p] = "done" /\ ret[p].status = 0 =>
                 op[p] \in {"UpdateTodo", "CreateTodo"})
    /\ [][\A p \in Procs : pc'[p] # pc[p] => Rank(pc'[p]) > Rank(pc[p])]_vars

\* All requests have returned and the connection is back in the pool: a
\* DeleteTodo whose statement the store failed got a server error, another
\* request succeeded.
C17_Witness ==
    /\ \A p \in Procs : pc[p] = "done"
    /\ conns = {}
    /\ \E p \in Procs, q \in Procs :
         /\ op[p] = "DeleteTodo"
         /\ ret[p] = [status |-> 500, failed |-> "stmt"]
         /\ txs[p].state = "rollback"
         /\ op[q] \in TxKinds
         /\ ret[q].status = 200 /\ txs[q].state = "commit"

=============================================================================
